---------------------------- MODULE Spec2Model ----------------------------
(***************************************************************************)
(* Model of the Pumpfessor Joe workout calendar (workout_calendar.py) and  *)
(* of the workout builder with its flashcard session (workout_planner.py). *)
(*                                                                         *)
(* Both programs are Streamlit scripts: every user event re-runs main()    *)
(* from the top with the session state kept; st.rerun() ends the current   *)
(* run and starts a fresh one in which no button is pressed.  An action of *)
(* the model is one event together with the complete run(s) it causes.  A  *)
(* button that the run does not render is never consulted, so an event for *)
(* it is a plain re-run.                                                   *)
(*                                                                         *)
(* Dates are day ordinals: 0 is 2024-01-01.                                *)
(***************************************************************************)
EXTENDS Integers, Sequences, FiniteSets, TLC

VARIABLES
    today,          \* date.today(), an input of the environment
    split_option,   \* selectbox "Workout Split"
    hyper_days,     \* slider "Hypertrophy days per week"
    cardio_days,    \* slider "Cardio days per week"
    plan,           \* state.plan; <<>> also stands for an absent key (line 71)
    plan_start,     \* state.plan_start; NoDate while the key is absent
    cal_year,       \* state.cal_year; Unset while the key is absent
    cal_month,      \* state.cal_month; Unset while the key is absent
    call,           \* the event or call that produced the current state
    keys,           \* the keys present in the planner's session state
    workout,        \* state.workout
    current_card,   \* state.current_card
    finished,       \* state.finished
    pcall           \* the planner event that produced the current state

calvars == <<today, split_option, hyper_days, cardio_days, plan, plan_start,
             cal_year, cal_month, call>>
sessvars == <<keys, workout, current_card, finished, pcall>>
vars == <<today, split_option, hyper_days, cardio_days, plan, plan_start,
          cal_year, cal_month, call, keys, workout, current_card, finished,
          pcall>>

NoDate == -1
Unset == 0

----------------------------------------------------------------------------
(* Bounds of the model. *)

\* How many single days date.today() advances during a session (besides one
\* jump of a month).
MaxDaysElapsed == 1
\* How many months past the month of today "Next month" is pressed.
MaxMonthsAhead == 1

----------------------------------------------------------------------------
(* The calendar of datetime.date and calendar.monthrange. *)

EpochYear == 2024

IsLeap(y) == (y % 4 = 0 /\ y % 100 # 0) \/ y % 400 = 0

DaysInMonth(y, m) ==
    IF m = 2 THEN (IF IsLeap(y) THEN 29 ELSE 28)
    ELSE IF m \in {4, 6, 9, 11} THEN 30 ELSE 31

DaysInYear(y) == IF IsLeap(y) THEN 366 ELSE 365

RECURSIVE DaysBeforeYear(_)
DaysBeforeYear(y) ==
    IF y = EpochYear THEN 0
    ELSE IF y > EpochYear THEN DaysBeforeYear(y - 1) + DaysInYear(y - 1)
    ELSE DaysBeforeYear(y + 1) - DaysInYear(y)

RECURSIVE DaysBeforeMonth(_, _)
DaysBeforeMonth(y, m) ==
    IF m <= 1 THEN 0 ELSE DaysBeforeMonth(y, m - 1) + DaysInMonth(y, m - 1)

\* date(y, m, d) as a day ordinal
DateOf(y, m, d) == DaysBeforeYear(y) + DaysBeforeMonth(y, m) + (d - 1)

\* d.year and d.month
YearOf(d) ==
    CHOOSE y \in EpochYear..(EpochYear + 3) :
        DateOf(y, 1, 1) <= d /\ d < DateOf(y + 1, 1, 1)

MonthOf(d) ==
    CHOOSE m \in 1..12 :
        /\ DateOf(YearOf(d), m, 1) <= d
        /\ d < DateOf(YearOf(d), m, 1) + DaysInMonth(YearOf(d), m)

----------------------------------------------------------------------------
(* workout_calendar.py: split labels and schedule generation. *)

SplitOptions == {"Push / Pull / Legs", "Push / Pull", "Upper / Lower", "Full Body"}

get_split_labels(option) ==
    IF option = "Push / Pull / Legs" THEN <<"Push", "Pull", "Legs">>
    ELSE IF option = "Push / Pull" THEN <<"Push", "Pull">>
    ELSE IF option = "Upper / Lower" THEN <<"Upper", "Lower">>
    ELSE IF option = "Full Body" THEN <<"Full Body">>
    ELSE <<"Full Body">>

Max(a, b) == IF a >= b THEN a ELSE b
Min(a, b) == IF a <= b THEN a ELSE b

\* lines 37-39
ClampHyper(h) == Max(0, Min(7, h))

\* Mutant of ClampCardio: the cardio days are not capped by what the
\* hypertrophy days leave of the week.
ClampCardioAlone(h, c) == Max(0, Min(7, c))

ClampCardio(h, c) == Max(0, Min(7 - ClampHyper(h), c))
RestPerWeek(h, c) == 7 - ClampHyper(h) - ClampCardio(h, c)

\* n copies of x: ["x"] * n (the empty list when n <= 0)
Repeat(x, n) == [i \in 1..n |-> x]

\* line 41
WeekPattern(h, c) ==
    Repeat("H", ClampHyper(h)) \o Repeat("C", ClampCardio(h, c))
        \o Repeat("R", RestPerWeek(h, c))

\* lines 50-63: the entry appended for one day
HyperEntry(d, label) == [date |-> d, kind |-> "Hypertrophy", label |-> label, done |-> FALSE]
CardioEntry(d) == [date |-> d, kind |-> "Cardio", label |-> "Cardio", done |-> FALSE]
RestEntry(d) == [date |-> d, kind |-> "Rest", label |-> "Rest", done |-> FALSE]

\* line 51
PickLabel(split_labels, label_idx) ==
    split_labels[(label_idx % Len(split_labels)) + 1]

\* Mutant of LabelIdxAt: the counter restarts at every week boundary.
LabelIdxPerWeek(week_pattern, offset) ==
    Cardinality({k \in (offset - (offset % 7))..(offset - 1) : week_pattern[(k % 7) + 1] = "H"})

\* lines 44, 50-52: label_idx when the loop reaches `offset` is the number of
\* earlier iterations whose symbol was "H" (it starts at 0 in every call)
LabelIdxAt(week_pattern, offset) ==
    Cardinality({k \in 0..(offset - 1) : week_pattern[(k % 7) + 1] = "H"})

\* lines 47-63: the entry the loop appends at `offset`
EntryAt(split_labels, week_pattern, start_date, offset) ==
    LET d == start_date + offset
        symbol == week_pattern[(offset % 7) + 1]
    IN  IF symbol = "H"
        THEN HyperEntry(d, PickLabel(split_labels, LabelIdxAt(week_pattern, offset)))
        ELSE IF symbol = "C" THEN CardioEntry(d)
        ELSE RestEntry(d)

\* lines 31-65: one entry per offset in range(num_days), in order
generate_schedule(split_labels, hyper_per_week, cardio_per_week, start_date, num_days) ==
    LET week_pattern == WeekPattern(hyper_per_week, cardio_per_week)
    IN  [i \in 1..num_days |-> EntryAt(split_labels, week_pattern, start_date, i - 1)]

----------------------------------------------------------------------------
(* workout_calendar.py: the session state and extend_schedule_if_needed.   *)
(* A session state is a record of the four keys the script keeps.          *)

DefaultNumDays == 60
LookaheadDays == 30
TodayLookahead == 30

Session == [plan |-> plan, plan_start |-> plan_start, cal_year |-> cal_year, cal_month |-> cal_month]

LastDay(p) == p[Len(p)].date

\* lines 71-76: bootstrap when there is no plan
Bootstrap(s, split_labels, h, c, now) ==
    IF s.plan = <<>>
    THEN [s EXCEPT !.plan_start = now,
                   !.plan = generate_schedule(split_labels, h, c, now, DefaultNumDays)]
    ELSE s

\* line 80
NeedsExtension(last_day, until_date) == last_day < until_date

\* Mutant of ExtraDays: one block of 30 days, however far until_date is.
ExtraDaysOneBlock(until_date, extra_start) == LookaheadDays

\* Mutant of ExtraDays: no lookahead buffer.
ExtraDaysNoBuffer(until_date, extra_start) == until_date - extra_start

\* line 82
ExtraDays(until_date, extra_start) == (until_date - extra_start) + LookaheadDays

\* Mutant of ExtendPlan: the existing entries are derived again, which
\* clears their done flags.
ExtendPlanRederived(p, extra) == [i \in 1..Len(p) |-> [p[i] EXCEPT !.done = FALSE]] \o extra

\* line 86: state.plan.extend(extra)
ExtendPlan(p, extra) == p \o extra

\* Mutant of ExtraStart: the segment starts on the last day itself.
ExtraStartOnLastDay(last_day) == last_day

\* line 81
ExtraStart(last_day) == last_day + 1

\* lines 78-86
ExtendFrom(s, split_labels, h, c, until_date) ==
    LET last_day == LastDay(s.plan)
        extra_start == ExtraStart(last_day)
        extra_days == ExtraDays(until_date, extra_start)
        extra == generate_schedule(split_labels, h, c, extra_start, extra_days)
    IN  IF NeedsExtension(last_day, until_date)
        THEN [s EXCEPT !.plan = ExtendPlan(s.plan, extra)]
        ELSE s

\* lines 68-86
extend_schedule_if_needed(s, split_labels, h, c, until_date, now) ==
    ExtendFrom(Bootstrap(s, split_labels, h, c, now), split_labels, h, c, until_date)

----------------------------------------------------------------------------
(* workout_calendar.py: one run of the script.  An event is the button     *)
(* pressed (or "none") and the value of the "I completed this workout"     *)
(* checkbox.  A run yields the session state it leaves and whether it      *)
(* ended in st.rerun().                                                    *)

NoEvent == [button |-> "none", done |-> FALSE]

\* Mutant of TodaysEntries: a Rest entry of today is offered as well.
TodaysEntriesWithRest(p, now) == SelectSeq(p, LAMBDA e : e.date = now)

\* line 94
TodaysEntries(p, now) == SelectSeq(p, LAMBDA e : e.date = now /\ e.kind # "Rest")

\* line 109: list.index(entry), the first position holding an equal entry
IndexOf(p, entry) == CHOOSE i \in 1..Len(p) : p[i] = entry /\ \A j \in 1..(i - 1) : p[j] # entry

\* lines 109-110
SaveResult(p, entry, done) == [p EXCEPT ![IndexOf(p, entry)].done = done]

\* lines 89-112
show_today_control(s, split_labels, h, c, now, ev) ==
    LET s1 == extend_schedule_if_needed(s, split_labels, h, c, now + TodayLookahead, now)
        todays_entries == TodaysEntries(s1.plan, now)
    IN  IF todays_entries = <<>> THEN [s |-> s1, rerun |-> FALSE]
        ELSE IF ev.button = "save"
        THEN [s |-> [s1 EXCEPT !.plan = SaveResult(s1.plan, todays_entries[1], ev.done)],
              rerun |-> TRUE]
        ELSE [s |-> s1, rerun |-> FALSE]

\* lines 119-121
InitCalendarMonth(s, now) ==
    IF s.cal_year = Unset \/ s.cal_month = Unset
    THEN [s EXCEPT !.cal_year = YearOf(now), !.cal_month = MonthOf(now)]
    ELSE s

\* lines 124-125
LastOfMonth(y, m) == DateOf(y, m, DaysInMonth(y, m))

\* Mutant of MayGoBack: the previous month is shown whatever the plan's start.
MayGoBackAlways(prev_month, earliest_month) == TRUE

\* line 145
MayGoBack(prev_month, earliest_month) == prev_month >= earliest_month

\* lines 135-147
PreviousMonth(s) ==
    LET pm0 == s.cal_month - 1
        pm == IF pm0 = 0 THEN 12 ELSE pm0
        py == IF pm0 = 0 THEN s.cal_year - 1 ELSE s.cal_year
        earliest_month == DateOf(YearOf(s.plan_start), MonthOf(s.plan_start), 1)
        prev_month == DateOf(py, pm, 1)
    IN  IF MayGoBack(prev_month, earliest_month)
        THEN [s |-> [s EXCEPT !.cal_month = pm, !.cal_year = py], rerun |-> TRUE]
        ELSE [s |-> s, rerun |-> FALSE]

\* lines 151-159
NextMonth(s) ==
    LET nm0 == s.cal_month + 1
        nm == IF nm0 = 13 THEN 1 ELSE nm0
        ny == IF nm0 = 13 THEN s.cal_year + 1 ELSE s.cal_year
    IN  [s |-> [s EXCEPT !.cal_month = nm, !.cal_year = ny], rerun |-> TRUE]

\* lines 115-159
show_calendar(s, split_labels, h, c, now, ev) ==
    LET s1 == InitCalendarMonth(s, now)
        s2 == extend_schedule_if_needed(s1, split_labels, h, c,
                                        LastOfMonth(s1.cal_year, s1.cal_month), now)
    IN  IF ev.button = "prev" THEN PreviousMonth(s2)
        ELSE IF ev.button = "next" THEN NextMonth(s2)
        ELSE [s |-> s2, rerun |-> FALSE]

\* lines 238-245
GenerateResetPlan(s, split_labels, h, c, now) ==
    [s EXCEPT !.plan_start = now,
              !.plan = generate_schedule(split_labels, h, c, now, DefaultNumDays),
              !.cal_year = YearOf(now),
              !.cal_month = MonthOf(now)]

\* lines 212-250: one run of main()
Script(s, option, h, c, now, ev) ==
    LET split_labels == get_split_labels(option)
    IN  IF ev.button = "generate"
        THEN [s |-> GenerateResetPlan(s, split_labels, h, c, now), rerun |-> TRUE]
        ELSE LET t == show_today_control(s, split_labels, h, c, now, ev)
             IN  IF t.rerun THEN t
                 ELSE show_calendar(t.s, split_labels, h, c, now, ev)

\* A run and, when it ends in st.rerun(), the run that follows it.
Main(s, option, h, c, now, ev) ==
    LET r == Script(s, option, h, c, now, ev)
    IN  IF r.rerun THEN Script(r.s, option, h, c, now, NoEvent).s ELSE r.s

----------------------------------------------------------------------------
(* The calendar program: its events.                                       *)

\* The day on which the session starts: 2024-11-30, so that the next day is
\* in another month, the 60-day plan ends on 2025-01-28 and showing January
\* 2025 extends it.
StartDays == {DateOf(2024, 11, 30)}

\* Widget settings tried: (split, hypertrophy days, cardio days); the sliders
\* range over 0..7 each (lines 232-233), the first is the default setting.
DefaultWidgets == <<"Push / Pull / Legs", 4, 2>>
WidgetChoices ==
    {DefaultWidgets, <<"Push / Pull", 1, 0>>}

MonthIndex(y, m) == y * 12 + (m - 1)

\* The page has been rendered, so its widgets can be used.
Rendered == plan # <<>>

SessionUnchanged == UNCHANGED <<keys, workout, current_card, finished, pcall>>

\* `call` records what produced the current state: the operation, its
\* arguments (the until_date of an extend_schedule_if_needed call, all five
\* of a generate_schedule call), the length of the plan before it, and the until_date of the
\* operation before it when that was an extend_schedule_if_needed call.
Event(op) == [op |-> op, args |-> <<>>, len_before |-> Len(plan), prev_until |-> NoDate]

Becomes(s, op) ==
    /\ plan' = s.plan
    /\ plan_start' = s.plan_start
    /\ cal_year' = s.cal_year
    /\ cal_month' = s.cal_month
    /\ call' = Event(op)
    /\ SessionUnchanged

InitSession ==
    /\ keys = {}
    /\ workout = <<>>
    /\ current_card = 0
    /\ finished = FALSE
    /\ pcall = [op |-> "init", idx_before |-> 0, crash |-> FALSE, run |-> -1]

Init ==
    /\ today \in StartDays
    /\ split_option = DefaultWidgets[1]
    /\ hyper_days = DefaultWidgets[2]
    /\ cardio_days = DefaultWidgets[3]
    /\ plan = <<>>
    /\ plan_start = NoDate
    /\ cal_year = Unset
    /\ cal_month = Unset
    /\ call = [op |-> "init", args |-> <<>>, len_before |-> 0, prev_until |-> NoDate]
    /\ InitSession

\* The page is loaded or refreshed: a run with no button pressed.
Load ==
    /\ Becomes(Main(Session, split_option, hyper_days, cardio_days, today, NoEvent), "load")
    /\ UNCHANGED <<today, split_option, hyper_days, cardio_days>>

\* A selectbox or slider is moved: a run with the new widget values.
ChangeWidgets ==
    /\ Rendered
    /\ \E w \in WidgetChoices :
        /\ w # <<split_option, hyper_days, cardio_days>>
        /\ split_option' = w[1]
        /\ hyper_days' = w[2]
        /\ cardio_days' = w[3]
        /\ Becomes(Main(Session, w[1], w[2], w[3], today, NoEvent), "widgets")
    /\ UNCHANGED today

\* "Generate / Reset Plan"
PressGenerate ==
    /\ Rendered
    /\ Becomes(Main(Session, split_option, hyper_days, cardio_days, today,
                    [button |-> "generate", done |-> FALSE]), "generate")
    /\ UNCHANGED <<today, split_option, hyper_days, cardio_days>>

\* "Save today's result", with the checkbox ticked or not
PressSave ==
    /\ Rendered
    /\ \E done \in BOOLEAN :
        Becomes(Main(Session, split_option, hyper_days, cardio_days, today,
                     [button |-> "save", done |-> done]), "save")
    /\ UNCHANGED <<today, split_option, hyper_days, cardio_days>>

\* "Previous month"
PressPrevious ==
    /\ Rendered
    /\ Becomes(Main(Session, split_option, hyper_days, cardio_days, today,
                    [button |-> "prev", done |-> FALSE]), "prev")
    /\ UNCHANGED <<today, split_option, hyper_days, cardio_days>>

\* "Next month"
PressNext ==
    /\ Rendered
    /\ MonthIndex(cal_year, cal_month) < MonthIndex(YearOf(today), MonthOf(today)) + MaxMonthsAhead
    /\ Becomes(Main(Session, split_option, hyper_days, cardio_days, today,
                    [button |-> "next", done |-> FALSE]), "next")
    /\ UNCHANGED <<today, split_option, hyper_days, cardio_days>>

\* Time passes: the next event comes a day, or 30 days, later.

DayJumps == {1, 30}
ElapsedAllowed == {a + b : a \in 0..MaxDaysElapsed, b \in {0, 30}}

Tick ==
    /\ \E k \in DayJumps :
        /\ \E d0 \in StartDays : (today + k) - d0 \in ElapsedAllowed
        /\ today' = today + k
    /\ call' = Event("tick")
    /\ UNCHANGED <<split_option, hyper_days, cardio_days, plan, plan_start, cal_year, cal_month>>
    /\ SessionUnchanged

Next ==
    \/ Load
    \/ ChangeWidgets
    \/ PressGenerate
    \/ PressSave
    \/ PressPrevious
    \/ PressNext
    \/ Tick

Spec == Init /\ [][Next]_vars

----------------------------------------------------------------------------
(* The calendar program with the widgets left alone.  A session that       *)
(* starts with a widget setting and no plan bootstraps, on its first run,  *)
(* exactly the state "Generate / Reset Plan" produces with that setting.   *)

InitFixed ==
    /\ today \in StartDays
    /\ \E w \in WidgetChoices :
        /\ split_option = w[1]
        /\ hyper_days = w[2]
        /\ cardio_days = w[3]
    /\ plan = <<>>
    /\ plan_start = NoDate
    /\ cal_year = Unset
    /\ cal_month = Unset
    /\ call = [op |-> "init", args |-> <<>>, len_before |-> 0, prev_until |-> NoDate]
    /\ InitSession

NextFixed ==
    \/ Load
    \/ PressGenerate
    \/ PressSave
    \/ PressPrevious
    \/ PressNext
    \/ Tick

SpecFixed == InitFixed /\ [][NextFixed]_vars

----------------------------------------------------------------------------
(* generate_schedule as a function of its arguments.                       *)

\* Largest num_days tried besides the default of 60.
MaxNumDays == 16

\* Requested frequencies tried: below 0, within 0..7, above 7.
Frequencies == (-2)..9

LabelSeqs == {get_split_labels(o) : o \in SplitOptions} \cup {<<"A", "B", "C", "D", "E">>}

InitGen == Init

CallGenerate ==
    /\ call.op = "init"
    /\ \E split_labels \in LabelSeqs, h \in Frequencies, c \in Frequencies,
          n \in (0..MaxNumDays) \cup {DefaultNumDays} :
            /\ plan' = generate_schedule(split_labels, h, c, today, n)
            /\ call' = [op |-> "generate_schedule", args |-> <<split_labels, h, c, today, n>>,
                        len_before |-> Len(plan), prev_until |-> NoDate]
    /\ UNCHANGED <<today, split_option, hyper_days, cardio_days, plan_start,
                   cal_year, cal_month>>
    /\ SessionUnchanged

NextGen == CallGenerate

SpecGen == InitGen /\ [][NextGen]_vars

----------------------------------------------------------------------------
(* extend_schedule_if_needed as an operation on the session state, called  *)
(* with any arguments; an entry's done flag is set from outside as lines   *)
(* 109-110 set it.                                                         *)

\* (split labels, hyper_per_week, cardio_per_week) tried
ExtendArgs ==
    {<<get_split_labels("Push / Pull / Legs"), 4, 2>>,
     <<get_split_labels("Push / Pull"), 9, -1>>}

\* How many days date.today() advances between the calls.
MaxCallDays == 1

\* until_date tried, in days after today
UntilOffsets == {30, 59, 60, 95}

CallExtend ==
    \E a \in ExtendArgs, k \in UntilOffsets :
        LET s == extend_schedule_if_needed(Session, a[1], a[2], a[3], today + k, today)
        IN  /\ plan' = s.plan
            /\ plan_start' = s.plan_start
            /\ cal_year' = s.cal_year
            /\ cal_month' = s.cal_month
            /\ call' = [op |-> "extend", args |-> <<today + k>>,
                        len_before |-> Len(plan),
                        prev_until |-> IF call.op = "extend" THEN call.args[1] ELSE NoDate]
            /\ UNCHANGED <<today, split_option, hyper_days, cardio_days>>
            /\ SessionUnchanged

MarkDone ==
    /\ TodaysEntries(plan, today) # <<>>
    /\ \E done \in BOOLEAN :
        plan' = SaveResult(plan, TodaysEntries(plan, today)[1], done)
    /\ call' = Event("mark")
    /\ UNCHANGED <<today, split_option, hyper_days, cardio_days, plan_start, cal_year, cal_month>>
    /\ SessionUnchanged

NextDay ==
    /\ \E d0 \in StartDays : d0 <= today /\ today < d0 + MaxCallDays
    /\ today' = today + 1
    /\ call' = Event("tick")
    /\ UNCHANGED <<split_option, hyper_days, cardio_days, plan, plan_start, cal_year, cal_month>>
    /\ SessionUnchanged

NextExtend ==
    \/ CallExtend
    \/ MarkDone
    \/ NextDay

SpecExtend == Init /\ [][NextExtend]_vars

----------------------------------------------------------------------------
(* Properties of the calendar.                                             *)

\* The number of Hypertrophy entries of p before position i.
HyperBefore(p, i) == Cardinality({j \in 1..(i - 1) : p[j].kind = "Hypertrophy"})

\* The i-th Hypertrophy entry of p (i from 0) carries labels[i mod len(labels)].
RotatesThrough(p, labels) ==
    \A i \in 1..Len(p) :
        p[i].kind = "Hypertrophy" =>
            p[i].label = labels[(HyperBefore(p, i) % Len(labels)) + 1]

Clamp(x, lo, hi) == IF x < lo THEN lo ELSE IF x > hi THEN hi ELSE x

KindOfSymbol(symbol) ==
    IF symbol = "H" THEN "Hypertrophy" ELSE IF symbol = "C" THEN "Cardio" ELSE "Rest"

\* C1: extension is append-only.  Whenever extend_schedule_if_needed runs on
\* an existing non-empty plan, with any until_date and any split and
\* frequency arguments, the plan before the call is a prefix of the plan
\* after it: no entry is lost, moved or changed in date, kind, label or done.
C1_AppendOnly ==
    [][(call'.op = "extend" /\ plan # <<>>) =>
            /\ Len(plan') >= Len(plan)
            /\ \A i \in 1..Len(plan) : plan'[i] = plan[i]]_vars

\* A call on an existing plan holding a done mark appended entries.
C1_Witness ==
    /\ call.op = "extend"
    /\ call.len_before > 0
    /\ Len(plan) > call.len_before
    /\ \E i \in 1..call.len_before : plan[i].done

\* C2: the label rotation resumes across an extension boundary.  In a plan
\* grown by extensions with the same split labels and frequencies, the i-th
\* Hypertrophy entry of the whole plan (i from 0) has label
\* splitLabels[i mod len(splitLabels)].
C2_RotationResumes ==
    Len(plan) > DefaultNumDays => RotatesThrough(plan, get_split_labels(split_option))

\* C3: the stored plan's dates are gap-free and strictly increasing in every
\* reachable state: each entry is dated one day after the entry before it;
\* and one generate_schedule call returns exactly num_days entries, entry i
\* dated start_date + i days.
C3_DatesGapFree ==
    /\ \A k \in 1..(Len(plan) - 1) : plan[k + 1].date = plan[k].date + 1
    /\ \A n \in (0..MaxNumDays) \cup {DefaultNumDays} :
        LET g == generate_schedule(get_split_labels(split_option), hyper_days,
                                   cardio_days, today, n)
        IN  /\ Len(g) = n
            /\ \A i \in 0..(n - 1) : g[i + 1].date = today + i

\* A plan that was reset on a later day, marked done and extended.
C3_Witness ==
    /\ plan # <<>>
    /\ plan_start \notin StartDays
    /\ Len(plan) > DefaultNumDays
    /\ \E i \in 1..Len(plan) : plan[i].done

\* C4: within one generate_schedule call the label counter advances only on
\* Hypertrophy entries and is never reset: the i-th Hypertrophy entry in
\* output order has label splitLabels[i mod len(splitLabels)], every Cardio
\* entry has label "Cardio", every Rest entry has label "Rest", and every
\* entry has done = FALSE.
C4_LabelCounter ==
    call.op = "generate_schedule" =>
        /\ RotatesThrough(plan, call.args[1])
        /\ \A i \in 1..Len(plan) :
            /\ plan[i].kind \in {"Hypertrophy", "Cardio", "Rest"}
            /\ plan[i].kind = "Cardio" => plan[i].label = "Cardio"
            /\ plan[i].kind = "Rest" => plan[i].label = "Rest"
            /\ plan[i].done = FALSE

\* A three-label split whose second week does not start with the first
\* label, in a plan that also holds Cardio and Rest entries.
C4_Witness ==
    /\ call.op = "generate_schedule"
    /\ Len(call.args[1]) = 3
    /\ Len(plan) >= 8
    /\ plan[8].kind = "Hypertrophy"
    /\ plan[8].label # call.args[1][1]
    /\ \E i \in 1..7 : plan[i].kind = "Cardio"
    /\ \E i \in 1..7 : plan[i].kind = "Rest"

\* C5: for every requested pair (h, c), negative values and h + c > 7
\* included, the weekly pattern has length 7 and is countH Hypertrophy
\* symbols, then countC Cardio symbols, then 7 - countH - countC Rest
\* symbols, with countH = clamp(h, 0, 7) and countC = clamp(c, 0, 7 - countH);
\* the entry at offset k of the generated plan has the kind pattern[k mod 7].
C5_WeeklyPattern ==
    call.op = "generate_schedule" =>
        LET h == call.args[2]
            c == call.args[3]
            countH == Clamp(h, 0, 7)
            countC == Clamp(c, 0, 7 - countH)
            pattern == WeekPattern(h, c)
        IN  /\ Len(pattern) = 7
            /\ \A k \in 1..7 :
                pattern[k] = IF k <= countH THEN "H"
                             ELSE IF k <= countH + countC THEN "C" ELSE "R"
            /\ \A k \in 0..(Len(plan) - 1) :
                plan[k + 1].kind = KindOfSymbol(pattern[(k % 7) + 1])

\* Frequencies 5 and 4 (more than a week holds) in a default-length plan:
\* the cardio days are cut to 2 and the 7th day is Cardio.
C5_Witness ==
    /\ call.op = "generate_schedule"
    /\ call.args[2] = 5
    /\ call.args[3] = 4
    /\ Len(plan) = DefaultNumDays
    /\ plan[5].kind = "Hypertrophy"
    /\ plan[7].kind = "Cardio"

\* C6: after extend_schedule_if_needed(until_date) the plan is non-empty and
\* its last date is on or after until_date.  With no plan, a 60-entry plan
\* starting today is created first and plan_start is set to today.  If the
\* (existing or bootstrapped) plan's last date was before until_date,
\* exactly (until_date - newStart).days + 30 entries are appended, newStart
\* the day after the previous last entry; otherwise nothing is appended.
C6_ExtendCovers ==
    [][call'.op = "extend" =>
        LET until_date == call'.args[1]
            base == IF plan = <<>> THEN DefaultNumDays ELSE Len(plan)
        IN  /\ plan' # <<>>
            /\ LastDay(plan') >= until_date
            /\ Len(plan') >= base
            /\ plan = <<>> => (plan_start' = today /\ plan'[1].date = today)
            /\ plan # <<>> => plan_start' = plan_start
            /\ LET last_before == IF plan = <<>> THEN plan'[base].date ELSE LastDay(plan)
                   new_start == last_before + 1
               IN  IF last_before < until_date
                   THEN Len(plan') = base + (until_date - new_start) + 30
                   ELSE Len(plan') = base]_vars

\* One call bootstrapped the plan and extended it past until_date.
C6_Witness ==
    /\ call.op = "extend"
    /\ call.len_before = 0
    /\ plan_start = today
    /\ Len(plan) > DefaultNumDays
    /\ LastDay(plan) >= call.args[1]

\* C7: extending twice to the same until_date is idempotent: the second
\* call leaves the whole plan unchanged, done flags included.
C7_ExtendIdempotent ==
    [][(call.op = "extend" /\ call'.op = "extend" /\ call'.args[1] = call.args[1]) =>
            plan' = plan]_vars

\* The second of two calls with the same until_date, on an extended plan
\* holding a done mark.
C7_Witness ==
    /\ call.op = "extend"
    /\ call.prev_until = call.args[1]
    /\ Len(plan) > DefaultNumDays
    /\ Len(plan) = call.len_before
    /\ \E i \in 1..Len(plan) : plan[i].done

----------------------------------------------------------------------------
(* workout_planner.py: the workout builder.  Scores are kept in tenths.    *)

\* The exercise table load_exercises returns: the rows of spec section 8's
\* scenario; the CSV file itself is not part of the sources.
Catalog ==
    << [Exercise |-> "Bench Press", MuscleGroup |-> "Chest", Equipment |-> "Barbell", Link |-> ""],
       [Exercise |-> "Barbell Row", MuscleGroup |-> "Back", Equipment |-> "Barbell", Link |-> ""],
       [Exercise |-> "Squat", MuscleGroup |-> "Legs", Equipment |-> "Barbell", Link |-> ""],
       [Exercise |-> "Overhead Press", MuscleGroup |-> "Shoulders", Equipment |-> "Dumbbells", Link |-> ""] >>

\* The muscle-group names of the keyword table and of the catalog, in the
\* order sorted() gives them.
MuscleOrder ==
    <<"Abs", "Arms", "Back", "Biceps", "Chest", "Core", "Forearms", "Glutes",
      "Hamstrings", "Legs", "Quads", "Shoulders", "Triceps">>

\* lines 113, 250: sorted(df["Muscle Group"].unique())
SortedMuscles(df) ==
    SelectSeq(MuscleOrder, LAMBDA mg : \E i \in 1..Len(df) : df[i].MuscleGroup = mg)

\* str.lower() on one character of an ASCII title
UpperLetters ==
    <<"A", "B", "C", "D", "E", "F", "G", "H", "I", "J", "K", "L", "M",
      "N", "O", "P", "Q", "R", "S", "T", "U", "V", "W", "X", "Y", "Z">>
LowerLetters ==
    <<"a", "b", "c", "d", "e", "f", "g", "h", "i", "j", "k", "l", "m",
      "n", "o", "p", "q", "r", "s", "t", "u", "v", "w", "x", "y", "z">>

LowerChar(ch) ==
    IF \E i \in 1..26 : UpperLetters[i] = ch
    THEN LowerLetters[CHOOSE i \in 1..26 : UpperLetters[i] = ch]
    ELSE ch

Lower(title) == [i \in 1..Len(title) |-> LowerChar(title[i])]

\* key in title
Contains(title, key) ==
    \E i \in 0..(Len(title) - Len(key)) : SubSeq(title, i + 1, i + Len(key)) = key

\* lines 50-63: the keyword table
Mapping ==
    { [key |-> <<"p", "u", "s", "h">>, muscles |-> {"Chest", "Triceps", "Shoulders"}],
      [key |-> <<"p", "u", "l", "l">>, muscles |-> {"Back", "Biceps"}],
      [key |-> <<"l", "e", "g", "s">>, muscles |-> {"Legs", "Quads", "Hamstrings", "Glutes"}],
      [key |-> <<"u", "p", "p", "e", "r">>, muscles |-> {"Chest", "Shoulders", "Back", "Arms"}],
      [key |-> <<"l", "o", "w", "e", "r">>, muscles |-> {"Legs", "Quads", "Hamstrings", "Glutes"}],
      [key |-> <<"a", "r", "m", "s">>, muscles |-> {"Biceps", "Triceps", "Forearms"}],
      [key |-> <<"c", "h", "e", "s", "t">>, muscles |-> {"Chest"}],
      [key |-> <<"b", "a", "c", "k">>, muscles |-> {"Back"}],
      [key |-> <<"s", "h", "o", "u", "l", "d", "e", "r">>, muscles |-> {"Shoulders"}],
      [key |-> <<"g", "l", "u", "t", "e">>, muscles |-> {"Glutes"}],
      [key |-> <<"c", "o", "r", "e">>, muscles |-> {"Abs", "Core"}],
      [key |-> <<"a", "b", "s">>, muscles |-> {"Abs", "Core"}] }

SeqToSet(s) == {s[i] : i \in 1..Len(s)}

\* lines 47-73: the result as a set (its order is never used)
infer_muscles_from_title(title, all_muscles) ==
    LET lowered == Lower(title)
        found == UNION {m.muscles \cap SeqToSet(all_muscles) :
                            m \in {e \in Mapping : Contains(lowered, e.key)}}
    IN  IF found = {}
        THEN SeqToSet(SubSeq(all_muscles, 1, Min(3, Len(all_muscles))))
        ELSE found

\* round(n / d) of Python 3: to the nearest integer, a tie to the even one
RoundHalfEven(n, d) ==
    LET q == n \div d
        r == n % d
    IN  IF 2 * r < d THEN q
        ELSE IF 2 * r > d THEN q + 1
        ELSE IF q % 2 = 0 THEN q ELSE q + 1

\* lines 79-85; int(base * 0.8) and int(base * 1.2) truncate, and for base
\* in 3..10 the floating-point products truncate as the exact ones do
compute_num_exercises(minutes, intensity) ==
    LET base == Max(3, Min(10, RoundHalfEven(minutes, 8)))
    IN  IF intensity = "Light" THEN Max(3, (base * 8) \div 10)
        ELSE IF intensity = "Moderate" THEN base
        ELSE Min(12, (base * 12) \div 10)

\* line 95: soreness.get(mg, 0)
SorenessOf(soreness, mg) == IF mg \in DOMAIN soreness THEN soreness[mg] ELSE 0

\* lines 88-98, in tenths; jitter stands for random.uniform(-1, 1)
score_exercise(row, targets, soreness, jitter) ==
    (IF row.MuscleGroup \in targets THEN 60 ELSE 0)
        - SorenessOf(soreness, row.MuscleGroup) * 16 + jitter

\* lines 101-106
sets_reps_rest(intensity) ==
    IF intensity = "Light" THEN <<2, "12-15", "45-60 sec">>
    ELSE IF intensity = "Moderate" THEN <<3, "8-12", "60-90 sec">>
    ELSE <<4, "6-10", "90-120 sec">>

\* Mutant of VerySoreAt: a muscle group rated exactly 8 passes the filter.
VerySoreAbove(s) == s > 8

\* line 115
VerySoreAt(s) == s >= 8

\* lines 115-116
VerySore(soreness) == {mg \in DOMAIN soreness : VerySoreAt(soreness[mg])}

FilterSore(df, soreness) == SelectSeq(df, LAMBDA r : r.MuscleGroup \notin VerySore(soreness))

\* Mutant of SortedOrders: the rows are sorted by ascending score.
SortedOrdersAscending(scores) ==
    LET n == Len(scores)
    IN  {p \in [1..n -> 1..n] :
            /\ \A i, j \in 1..n : i # j => p[i] # p[j]
            /\ \A i \in 1..(n - 1) : scores[p[i]] <= scores[p[i + 1]]}

\* line 125: the orders df.sort_values("score", ascending=False) may give:
\* every arrangement of the rows with non-increasing scores
SortedOrders(scores) ==
    LET n == Len(scores)
    IN  {p \in [1..n -> 1..n] :
            /\ \A i, j \in 1..n : i # j => p[i] # p[j]
            /\ \A i \in 1..(n - 1) : scores[p[i]] >= scores[p[i + 1]]}

\* lines 131-142
ExerciseOf(r, srr) ==
    [name |-> r.Exercise, muscle |-> r.MuscleGroup, equipment |-> r.Equipment,
     sets |-> srr[1], reps |-> srr[2], rest |-> srr[3], link |-> r.Link]

\* lines 113, 122-124: the column df["score"] of the filtered table,
\* jitter[i] being the random term of its i-th row
ScoreColumn(df, title, soreness, jitter) ==
    LET targets == infer_muscles_from_title(title, SortedMuscles(df))
        kept == FilterSore(df, soreness)
    IN  [i \in 1..Len(kept) |-> score_exercise(kept[i], targets, soreness, jitter[i])]

\* lines 112-144: the plans build_workout_plan may return
build_workout_plan(df, title, minutes, soreness, intensity, jitter) ==
    LET kept == FilterSore(df, soreness)
        scores == ScoreColumn(df, title, soreness, jitter)
        num == Min(compute_num_exercises(minutes, intensity), Len(kept))
        srr == sets_reps_rest(intensity)
    IN  IF kept = <<>> THEN {<<>>}
        ELSE {[k \in 1..num |-> ExerciseOf(kept[p[k]], srr)] : p \in SortedOrders(scores)}

----------------------------------------------------------------------------
(* workout_planner.py: the session and one run of the script.  A planner   *)
(* session is the set of keys present and their values; an absent key's    *)
(* variable holds <<>>, 0 or FALSE.  An event is the button pressed (or     *)
(* "none") and, for "Generate Workout", the plan the builder returned.      *)

AllKeys == {"workout", "current_card", "finished"}

PSession == [keys |-> keys, workout |-> workout, current_card |-> current_card, finished |-> finished]

\* state.get("finished", False)
GetFinished(s) == "finished" \in s.keys /\ s.finished

\* line 252
ShowsFlashcards(s) == "workout" \in s.keys /\ ~GetFinished(s)

\* line 154: exercises[idx] raises IndexError outside -total..total-1
ValidIndex(idx, total) == -total <= idx /\ idx < total

\* Mutant of PreviousOffered: the button is shown on the first card too.
PreviousAlwaysOffered(idx) == idx >= 0

\* line 182
PreviousOffered(idx) == idx > 0

\* Mutant of IsPastLast: the session ends on reaching the last card.
IsPastLastEarly(card, total) == card >= total - 1

\* line 197
IsPastLast(card, total) == card >= total

\* lines 150-199; `crash` tells that line 154 raised
show_flashcards(s, ev) ==
    LET idx == s.current_card
        total == Len(s.workout)
    IN  IF ~ValidIndex(idx, total) THEN [s |-> s, rerun |-> FALSE, crash |-> TRUE]
        ELSE IF PreviousOffered(idx) /\ ev.button = "previous"
        THEN [s |-> [s EXCEPT !.current_card = idx - 1], rerun |-> TRUE, crash |-> FALSE]
        ELSE IF ev.button = "next"
        THEN [s |-> [s EXCEPT !.current_card = idx + 1,
                              !.finished = IF IsPastLast(idx + 1, total) THEN TRUE ELSE @,
                              !.keys = IF IsPastLast(idx + 1, total) THEN @ \cup {"finished"} ELSE @],
              rerun |-> TRUE, crash |-> FALSE]
        ELSE [s |-> s, rerun |-> FALSE, crash |-> FALSE]

\* Mutant of DeletedKeys: the finished flag survives the reset.
DeletedKeysButFinished == {"workout", "current_card"}

\* line 232
DeletedKeys == {"workout", "current_card", "finished"}

\* lines 231-235
ResetSession(s) ==
    [keys |-> s.keys \ DeletedKeys,
     workout |-> IF "workout" \in DeletedKeys THEN <<>> ELSE s.workout,
     current_card |-> IF "current_card" \in DeletedKeys THEN 0 ELSE s.current_card,
     finished |-> IF "finished" \in DeletedKeys THEN FALSE ELSE s.finished]

\* lines 205-235; the summary reads state.workout (line 214)
show_completion(s, ev) ==
    IF "workout" \notin s.keys THEN [s |-> s, rerun |-> FALSE, crash |-> TRUE]
    ELSE IF ev.button = "back" THEN [s |-> ResetSession(s), rerun |-> TRUE, crash |-> FALSE]
    ELSE [s |-> s, rerun |-> FALSE, crash |-> FALSE]

\* Mutant of GenerateWorkout: the session is entered whatever the builder
\* returned.
GenerateWorkoutUnchecked(s, built) ==
    [s |-> [keys |-> s.keys \cup {"workout", "current_card", "finished"},
            workout |-> built, current_card |-> 0, finished |-> FALSE],
     rerun |-> TRUE, crash |-> FALSE]

\* lines 276-284
GenerateWorkout(s, built) ==
    IF built = <<>> THEN [s |-> s, rerun |-> FALSE, crash |-> FALSE]
    ELSE [s |-> [keys |-> s.keys \cup AllKeys, workout |-> built, current_card |-> 0,
                 finished |-> FALSE],
          rerun |-> TRUE, crash |-> FALSE]

\* lines 241-284: one run of main()
PlannerScript(s, ev) ==
    IF ShowsFlashcards(s) THEN show_flashcards(s, ev)
    ELSE IF GetFinished(s) THEN show_completion(s, ev)
    ELSE IF ev.button = "generate" THEN GenerateWorkout(s, ev.built)
    ELSE [s |-> s, rerun |-> FALSE, crash |-> FALSE]

NoPress == [button |-> "none", built |-> <<>>]

\* A run and, when it ends in st.rerun(), the run that follows it.
PlannerMain(s, ev) ==
    LET r == PlannerScript(s, ev)
    IN  IF r.rerun THEN PlannerScript(r.s, NoPress) ELSE r

----------------------------------------------------------------------------
(* The workout builder: its events.                                        *)

\* The inputs of the builder form that are tried.
Titles == {<<"P", "u", "s", "h", " ", "D", "a", "y">>, <<"L", "e", "g", "s">>, <<"Y", "o", "g", "a">>}
MinuteChoices == {15, 45, 120}
Intensities == {"Light", "Moderate", "Max effort"}
SorenessChoices ==
    { <<>>,
      [mg \in {"Chest"} |-> 9],
      [mg \in {"Chest", "Back"} |-> IF mg = "Chest" THEN 8 ELSE 7],
      [mg \in {"Chest", "Back", "Legs"} |-> 10],
      [mg \in {"Chest", "Back", "Legs", "Shoulders"} |-> 8] }
JitterChoices == {-10, 10}

CalendarUnchanged ==
    UNCHANGED <<today, split_option, hyper_days, cardio_days, plan, plan_start,
                cal_year, cal_month, call>>

\* `pcall` records what produced the current state: the event, the card
\* index before it, whether its run raised, and `run`: how many "next"
\* presses, and no other press, followed the build (-1 otherwise).
PBecomes(r, op, run) ==
    /\ keys' = r.s.keys
    /\ workout' = r.s.workout
    /\ current_card' = r.s.current_card
    /\ finished' = r.s.finished
    /\ pcall' = [op |-> op, idx_before |-> current_card, crash |-> r.crash, run |-> run]
    /\ CalendarUnchanged

InitPlanner ==
    /\ today \in StartDays
    /\ split_option = DefaultWidgets[1]
    /\ hyper_days = DefaultWidgets[2]
    /\ cardio_days = DefaultWidgets[3]
    /\ plan = <<>>
    /\ plan_start = NoDate
    /\ cal_year = Unset
    /\ cal_month = Unset
    /\ call = [op |-> "init", args |-> <<>>, len_before |-> 0, prev_until |-> NoDate]
    /\ keys = {}
    /\ workout = <<>>
    /\ current_card = 0
    /\ finished = FALSE
    /\ pcall = [op |-> "init", idx_before |-> 0, crash |-> FALSE, run |-> -1]

\* lines 252-258: the run reaches the builder form
ShowsBuilder(s) == ~ShowsFlashcards(s) /\ ~GetFinished(s)

\* "Generate Workout" with the form's inputs and the random terms.  Where
\* the run does not reach the form, one input is tried: what the builder
\* would return plays no part there.
PressGenerateWorkout ==
    \/ /\ ShowsBuilder(PSession)
       /\ \E title \in Titles, minutes \in MinuteChoices, intensity \in Intensities,
             soreness \in SorenessChoices, jitter \in [1..Len(Catalog) -> JitterChoices] :
            \E built \in build_workout_plan(Catalog, title, minutes, soreness, intensity, jitter) :
                LET r == PlannerMain(PSession, [button |-> "generate", built |-> built])
                IN  PBecomes(r, "generate", IF r.s = PSession THEN -1 ELSE 0)
    \/ /\ ~ShowsBuilder(PSession)
       /\ \E built \in build_workout_plan(Catalog, <<"L", "e", "g", "s">>, 45, <<>>, "Moderate",
                                          [i \in 1..Len(Catalog) |-> 10]) :
            PBecomes(PlannerMain(PSession, [button |-> "generate", built |-> built]),
                     "generate", -1)

\* "Previous Exercise"
PressPreviousExercise ==
    /\ PBecomes(PlannerMain(PSession, [button |-> "previous", built |-> <<>>]), "previous", -1)

\* "Next Exercise" / "Finish Workout"
PressNextExercise ==
    /\ LET r == PlannerMain(PSession, [button |-> "next", built |-> <<>>])
       IN  PBecomes(r, "next", IF r.s # PSession /\ pcall.run >= 0 THEN pcall.run + 1 ELSE -1)

\* "Back to workout builder"
PressBack ==
    /\ PBecomes(PlannerMain(PSession, [button |-> "back", built |-> <<>>]), "back", -1)

\* The page is rendered again with no button pressed.
Rerender ==
    /\ PBecomes(PlannerMain(PSession, NoPress), "none", pcall.run)

NextPlanner ==
    \/ PressGenerateWorkout
    \/ PressPreviousExercise
    \/ PressNextExercise
    \/ PressBack
    \/ Rerender

SpecPlanner == InitPlanner /\ [][NextPlanner]_vars

----------------------------------------------------------------------------
(* Properties of the workout session.                                      *)

\* The state of spec section 4.5 that a session state is in (lines 252-258).
PhaseOf(k, f) ==
    IF "workout" \in k /\ ~("finished" \in k /\ f) THEN "InProgress"
    ELSE IF "finished" \in k /\ f THEN "Completed"
    ELSE "Building"

Phase == PhaseOf(keys, finished)

\* C8: for a plan of size N >= 1 the session becomes Completed only by a
\* "next" press at index N - 1, and from index 0 with no "previous" press
\* it takes exactly N "next" presses: after k < N of them the session is
\* InProgress with index k, the N-th sets finished.  No other event
\* (previous, re-render, build) sets finished.
C8_CompletedOnlyByNext ==
    /\ [](pcall.run >= 0 =>
            /\ Phase # "Building"
            /\ Len(workout) >= 1
            /\ Phase = "InProgress" => (pcall.run < Len(workout) /\ current_card = pcall.run)
            /\ Phase = "Completed" => pcall.run = Len(workout))
    /\ [][(Phase # "Completed" /\ Phase' = "Completed") =>
            /\ pcall'.op = "next"
            /\ Phase = "InProgress"
            /\ current_card = Len(workout) - 1]_vars
    /\ [][(~finished /\ finished') => (pcall'.op = "next" /\ Phase' = "Completed")]_vars

\* A plan of four exercises completed by four "next" presses.
C8_Witness ==
    /\ Phase = "Completed"
    /\ Len(workout) = 4
    /\ pcall.run = 4

\* C9: navigation never leaves the plan.  While a session exists and is not
\* finished, 0 <= index <= total - 1, so exercises[index] is valid;
\* "previous" changes nothing at index 0 and otherwise decrements the index
\* by exactly 1; "next" at index < total - 1 increments it by exactly 1 and
\* does not set finished.
C9_NavigationInBounds ==
    /\ [](Phase = "InProgress" => (0 <= current_card /\ current_card <= Len(workout) - 1))
    /\ [](~pcall.crash)
    /\ [][(pcall'.op = "previous" /\ Phase = "InProgress") =>
            /\ UNCHANGED <<keys, workout, finished>>
            /\ current_card' = IF current_card = 0 THEN 0 ELSE current_card - 1]_vars
    /\ [][(pcall'.op = "next" /\ Phase = "InProgress" /\ current_card < Len(workout) - 1) =>
            /\ UNCHANGED <<keys, workout, finished>>
            /\ current_card' = current_card + 1
            /\ Phase' = "InProgress"]_vars

\* "previous" arrived while the first card was shown.
C9_Witness ==
    /\ Phase = "InProgress"
    /\ pcall.op = "previous"
    /\ pcall.idx_before = 0
    /\ current_card = 0

\* C10: the session machine has only the transitions Building->InProgress,
\* InProgress->InProgress, InProgress->Completed and Completed->Building.
\* A build is accepted only in Building and starts the session with index 0
\* and finished = FALSE; the reset acts only in Completed and removes
\* workout, current_card and finished altogether.
C10_SessionTransitions ==
    [][/\ (Phase = "Building" /\ Phase' # "Building") =>
            /\ pcall'.op = "generate"
            /\ Phase' = "InProgress"
            /\ keys' = AllKeys
            /\ workout' # <<>>
            /\ current_card' = 0
            /\ finished' = FALSE
       /\ (Phase = "InProgress" /\ Phase' # "InProgress") => Phase' = "Completed"
       /\ (Phase = "Completed" /\ Phase' # "Completed") =>
            (pcall'.op = "back" /\ Phase' = "Building")
       /\ (pcall'.op = "generate" /\ Phase # "Building") =>
            UNCHANGED <<keys, workout, current_card, finished>>
       /\ pcall'.op = "back" =>
            IF Phase = "Completed"
            THEN keys' = {} /\ Phase' = "Building"
            ELSE UNCHANGED <<keys, workout, current_card, finished>>]_vars

\* The reset brought a completed session back to the builder.
C10_Witness ==
    /\ Phase = "Building"
    /\ keys = {}
    /\ pcall.op = "back"
    /\ pcall.idx_before >= 3


----------------------------------------------------------------------------
(* The workout builder called on its own: build_workout_plan through the   *)
(* "Generate Workout" button with every catalog, and the two functions     *)
(* compute_num_exercises and infer_muscles_from_title with every input.    *)
(* `pcall` records the arguments and the result of the call.               *)

\* A second exercise table: a muscle group with two rows, and groups the
\* keyword table names only in part.
ArmsCatalog ==
    << [Exercise |-> "Curl", MuscleGroup |-> "Biceps", Equipment |-> "Dumbbells", Link |-> ""],
       [Exercise |-> "Hammer Curl", MuscleGroup |-> "Biceps", Equipment |-> "Dumbbells", Link |-> ""],
       [Exercise |-> "Plank", MuscleGroup |-> "Core", Equipment |-> "None", Link |-> ""] >>

\* line 249: the tables load_exercises may return; <<>> is a file with no rows
Catalogs == {<<>>, Catalog, ArmsCatalog}

\* lines 268-271: the soreness maps the form can give: the multiselect
\* offers the muscle groups of the table, each slider 1..10
SorenessMaps ==
    SorenessChoices \cup
        { [mg \in {"Biceps"} |-> 8],
          [mg \in {"Biceps"} |-> 1],
          [mg \in {"Biceps", "Core"} |-> IF mg = "Biceps" THEN 7 ELSE 10],
          [mg \in {"Biceps", "Core"} |-> IF mg = "Biceps" THEN 9 ELSE 8] }

SorenessFor(df) == {s \in SorenessMaps : DOMAIN s \subseteq SeqToSet(SortedMuscles(df))}

\* line 261: st.slider(..., 15, 120, 45, 5)
SliderMinutes == {15 + 5 * k : k \in 0..21}

\* line 260: titles typed into the text input
InferTitles ==
    { <<"P", "u", "s", "h", " ", "D", "a", "y">>,
      <<"L", "e", "g", "s">>,
      <<"Y", "o", "g", "a">>,
      <<"A", "R", "M", "S">>,
      <<"U", "p", "p", "e", "r", " ", "B", "a", "c", "k">>,
      <<"P", "u", "s", "h", " ", "P", "u", "l", "l">>,
      <<"C", "o", "r", "e", " ", "a", "b", "s">>,
      <<"F", "l", "o", "w", "e", "r">>,
      <<>> }

\* "Generate Workout" pressed on the builder form, once on each visit to it
\* (at the start and after each reset).
BuildWorkout ==
    /\ ShowsBuilder(PSession)
    /\ pcall.op \in {"init", "back"}
    /\ \E df \in Catalogs, title \in Titles, minutes \in MinuteChoices, intensity \in Intensities :
         \E soreness \in SorenessFor(df), jitter \in [1..Len(df) -> JitterChoices] :
           \E built \in build_workout_plan(df, title, minutes, soreness, intensity, jitter) :
             LET r == PlannerMain(PSession, [button |-> "generate", built |-> built])
             IN  /\ keys' = r.s.keys
                 /\ workout' = r.s.workout
                 /\ current_card' = r.s.current_card
                 /\ finished' = r.s.finished
                 /\ pcall' = [op |-> "build", idx_before |-> current_card, crash |-> r.crash,
                              run |-> IF r.s = PSession THEN -1 ELSE 0,
                              df |-> df, title |-> title, minutes |-> minutes,
                              intensity |-> intensity, soreness |-> soreness,
                              jitter |-> jitter, kept |-> FilterSore(df, soreness),
                              scores |-> ScoreColumn(df, title, soreness, jitter),
                              built |-> built]
                 /\ CalendarUnchanged

\* compute_num_exercises(minutes, intensity) with the form's values
CallCompute ==
    /\ pcall.op = "init"
    /\ \E minutes \in SliderMinutes, intensity \in Intensities :
         pcall' = [op |-> "compute", idx_before |-> current_card, crash |-> FALSE,
                   run |-> -1, minutes |-> minutes, intensity |-> intensity,
                   result |-> compute_num_exercises(minutes, intensity)]
    /\ UNCHANGED <<keys, workout, current_card, finished>>
    /\ CalendarUnchanged

\* infer_muscles_from_title(title, sorted(df["Muscle Group"].unique()))
CallInfer ==
    /\ pcall.op = "init"
    /\ \E title \in InferTitles, df \in Catalogs :
         pcall' = [op |-> "infer", idx_before |-> current_card, crash |-> FALSE,
                   run |-> -1, title |-> title, all_muscles |-> SortedMuscles(df),
                   result |-> infer_muscles_from_title(title, SortedMuscles(df))]
    /\ UNCHANGED <<keys, workout, current_card, finished>>
    /\ CalendarUnchanged

NextBuild ==
    \/ BuildWorkout
    \/ CallCompute
    \/ CallInfer
    \/ PressPreviousExercise
    \/ PressNextExercise
    \/ PressBack
    \/ Rerender

SpecBuild == InitPlanner /\ [][NextBuild]_vars


----------------------------------------------------------------------------
(* Properties of the workout builder.                                      *)

\* The soreness the form gave for the muscle group of a catalog row, 0 when
\* the group was not rated.
RatedSoreness(c, row) ==
    IF row.MuscleGroup \in DOMAIN c.soreness THEN c.soreness[row.MuscleGroup] ELSE 0

\* The rows of the catalog that appear in the returned plan.
RowsReturned(c) ==
    {i \in 1..Len(c.df) : \E k \in 1..Len(c.built) : c.built[k].name = c.df[i].Exercise}

\* C11: build_workout_plan never returns an exercise whose muscle group has
\* soreness >= 8, and the filter excludes no muscle group rated 7 or less
\* or not rated: the rows that pass the filter are exactly the rows rated
\* below 8, and when fewer exercises are returned than were requested every
\* such row is in the plan.
C11_SorenessFilter ==
    pcall.op = "build" =>
        /\ \A k \in 1..Len(pcall.built) :
              /\ \E i \in 1..Len(pcall.df) :
                    /\ pcall.df[i].Exercise = pcall.built[k].name
                    /\ pcall.df[i].MuscleGroup = pcall.built[k].muscle
                    /\ RatedSoreness(pcall, pcall.df[i]) < 8
              /\ pcall.built[k].muscle \in DOMAIN pcall.soreness
                    => pcall.soreness[pcall.built[k].muscle] <= 7
        /\ pcall.kept = SelectSeq(pcall.df, LAMBDA row : RatedSoreness(pcall, row) <= 7)
        /\ Len(pcall.built) < compute_num_exercises(pcall.minutes, pcall.intensity)
              => RowsReturned(pcall) = {i \in 1..Len(pcall.df) : RatedSoreness(pcall, pcall.df[i]) <= 7}

\* Chest is rated 8 and left out, Back is rated 7 and returned.
C11_Witness ==
    /\ pcall.op = "build"
    /\ pcall.df = Catalog
    /\ "Chest" \in DOMAIN pcall.soreness /\ pcall.soreness["Chest"] = 8
    /\ "Back" \in DOMAIN pcall.soreness /\ pcall.soreness["Back"] = 7
    /\ \E k \in 1..Len(pcall.built) : pcall.built[k].muscle = "Back"
    /\ \A k \in 1..Len(pcall.built) : pcall.built[k].muscle # "Chest"
    /\ workout = pcall.built


\* C12: when the catalog is empty or every row's muscle group is rated 8
\* or more, build_workout_plan returns the empty plan and the caller enters
\* no session: workout, current_card and finished stay unset and the
\* machine stays in Building.  Conversely a session that exists holds a
\* plan of at least one exercise.
C12_EmptyPlanNoSession ==
    /\ (pcall.op = "build"
          /\ \A i \in 1..Len(pcall.df) : RatedSoreness(pcall, pcall.df[i]) >= 8)
        => /\ pcall.built = <<>>
           /\ keys \cap AllKeys = {}
           /\ Phase = "Building"
           /\ ~pcall.crash
    /\ "workout" \in keys => Len(workout) >= 1
    /\ Phase # "Building" => ("workout" \in keys /\ Len(workout) >= 1)

\* Every muscle group of a catalog of four rows is rated 8: no session.
C12_Witness ==
    /\ pcall.op = "build"
    /\ Len(pcall.df) = 4
    /\ \A i \in 1..Len(pcall.df) : RatedSoreness(pcall, pcall.df[i]) >= 8
    /\ pcall.built = <<>>
    /\ keys = {}


\* C13: the requested exercise count follows the stated formula for every
\* minutes in 15..120 (step 5) and every intensity:
\* base = clamp(round(minutes / 8), 3, 10); Light gives round(base * 0.8)
\* bounded below by 3; Moderate gives base; Max gives base * 1.2 (to a
\* neighbouring integer) bounded above by 12; the result is an integer in
\* 3..12; 15 minutes with Light gives 3 and 120 minutes with Max gives 12.
C13_CountFormula ==
    pcall.op = "compute" =>
        LET base == Clamp(RoundHalfEven(pcall.minutes, 8), 3, 10)
        IN  /\ pcall.intensity = "Light" =>
                  pcall.result = Max(3, RoundHalfEven(base * 8, 10))
            /\ pcall.intensity = "Moderate" => pcall.result = base
            /\ pcall.intensity = "Max effort" =>
                  \/ pcall.result = 12 /\ base * 12 >= 120
                  \/ /\ pcall.result < 12
                     /\ 10 * pcall.result - 10 < base * 12
                     /\ base * 12 < 10 * pcall.result + 10
            /\ pcall.result \in 3..12
            /\ (pcall.minutes = 15 /\ pcall.intensity = "Light") => pcall.result = 3
            /\ (pcall.minutes = 120 /\ pcall.intensity = "Max effort") => pcall.result = 12


\* The rows of the catalog whose muscle group is rated below 8.
Eligible(c) == SelectSeq(c.df, LAMBDA row : RatedSoreness(c, row) < 8)

\* The row of the filtered catalog that the k-th returned exercise is.
RowOf(c, k) == CHOOSE i \in 1..Len(Eligible(c)) : Eligible(c)[i].Exercise = c.built[k].name

\* Section 4.4, step 6: the triple of an intensity.
TripleOf(intensity) ==
    IF intensity = "Light" THEN <<2, "12-15", "45-60 sec">>
    ELSE IF intensity = "Moderate" THEN <<3, "8-12", "60-90 sec">>
    ELSE <<4, "6-10", "90-120 sec">>

\* C14: the plan's length is min(compute_num_exercises(minutes, intensity),
\* number of rows rated below 8) for every jitter outcome; the returned
\* exercises are distinct rows of the filtered catalog in non-increasing
\* score order; each carries the (sets, reps, rest) triple of the intensity.
\* With the rows Chest, Back, Legs, Shoulders, soreness {Chest: 9}, 45
\* minutes and Moderate the requested count is 6 and the plan has 3 entries.
C14_PlanLengthAndOrder ==
    pcall.op = "build" =>
        LET n == Len(pcall.built)
            rows == Eligible(pcall)
        IN  /\ n = Min(compute_num_exercises(pcall.minutes, pcall.intensity), Len(rows))
            /\ \A k \in 1..n : \E i \in 1..Len(rows) :
                  /\ rows[i].Exercise = pcall.built[k].name
                  /\ rows[i].MuscleGroup = pcall.built[k].muscle
                  /\ rows[i].Equipment = pcall.built[k].equipment
                  /\ rows[i].Link = pcall.built[k].link
            /\ \A k1, k2 \in 1..n : k1 # k2 => RowOf(pcall, k1) # RowOf(pcall, k2)
            /\ \A k \in 1..(n - 1) :
                  pcall.scores[RowOf(pcall, k)] >= pcall.scores[RowOf(pcall, k + 1)]
            /\ \A k \in 1..n :
                  <<pcall.built[k].sets, pcall.built[k].reps, pcall.built[k].rest>>
                      = TripleOf(pcall.intensity)
            /\ (/\ pcall.df = Catalog
                /\ pcall.soreness = [mg \in {"Chest"} |-> 9]
                /\ pcall.minutes = 45
                /\ pcall.intensity = "Moderate")
               => (compute_num_exercises(45, "Moderate") = 6 /\ n = 3)

\* The scenario of the claim, with scores that differ between the rows.
C14_Witness ==
    /\ pcall.op = "build"
    /\ pcall.df = Catalog
    /\ pcall.soreness = [mg \in {"Chest"} |-> 9]
    /\ pcall.minutes = 45
    /\ pcall.intensity = "Moderate"
    /\ Len(pcall.built) = 3
    /\ pcall.scores[RowOf(pcall, 1)] > pcall.scores[RowOf(pcall, 3)]
    /\ workout = pcall.built


\* The keywords of the table that occur in the lower-cased title.
KeywordsIn(title) == {e \in Mapping : Contains(Lower(title), e.key)}

\* C15: infer_muscles_from_title returns exactly the union, over the
\* keywords of the table that occur in the lower-cased title, of their
\* muscle groups, intersected with the known muscle groups; the first three
\* known groups in sorted order are returned if and only if no keyword
\* occurs in the title; the result is a subset of the known groups.
C15_InferMuscles ==
    pcall.op = "infer" =>
        LET known == SeqToSet(pcall.all_muscles)
            matched == KeywordsIn(pcall.title)
            firstThree == SeqToSet(SubSeq(pcall.all_muscles, 1, Min(3, Len(pcall.all_muscles))))
        IN  /\ pcall.result \subseteq known
            /\ matched # {} => pcall.result = (UNION {e.muscles : e \in matched}) \cap known
            /\ matched = {} => pcall.result = firstThree


----------------------------------------------------------------------------
(* Properties of the calendar's month navigation and of the stored plan.   *)

\* The month shown and the month of plan_start, as month counts.
ShownMonth == MonthIndex(cal_year, cal_month)
StartMonth == MonthIndex(YearOf(plan_start), MonthOf(plan_start))

\* C16: the month shown is never earlier than the month of plan_start,
\* whatever sequence of previous-month, next-month and Generate / Reset
\* presses and of passing days led to the state; a previous-month press at
\* the month of plan_start leaves cal_year and cal_month unchanged, any
\* other goes back one month.
C16_MonthBoundedBelow ==
    /\ [](plan # <<>> => ShownMonth >= StartMonth)
    /\ [][(call'.op = "prev" /\ plan # <<>>) =>
            /\ ShownMonth = StartMonth => UNCHANGED <<cal_year, cal_month>>
            /\ ShownMonth > StartMonth =>
                  MonthIndex(cal_year', cal_month') = ShownMonth - 1]_vars

\* "Previous month" pressed while the month of plan_start is shown: the
\* plan was made on 2024-12-01 and still has its 60 entries, so January
\* (whose display would have extended it) was not shown since.
C16_Witness ==
    /\ call.op = "prev"
    /\ plan_start = DateOf(2024, 12, 1)
    /\ cal_year = 2024 /\ cal_month = 12
    /\ Len(plan) = 60


\* The entries of a run of seven consecutive entries that have a kind.
KindCount(p, first, kind) == Cardinality({i \in first..(first + 6) : p[i].kind = kind})

\* C17: with unchanged frequencies the weekly pattern stays aligned to the
\* plan's start across extensions: the entry dated plan_start + k has the
\* kind of pattern[k mod 7], so every seven consecutive entries hold
\* exactly countH Hypertrophy and countC Cardio entries, also across an
\* extension boundary.
C17_PatternAligned ==
    plan # <<>> =>
        LET pattern == WeekPattern(hyper_days, cardio_days)
        IN  /\ \A i \in 1..Len(plan) :
                  plan[i].kind = KindOfSymbol(pattern[((plan[i].date - plan_start) % 7) + 1])
            /\ \A first \in 1..(Len(plan) - 6) :
                  /\ KindCount(plan, first, "Hypertrophy") = ClampHyper(hyper_days)
                  /\ KindCount(plan, first, "Cardio") = ClampCardio(hyper_days, cardio_days)


\* Two entries that agree in date, kind and label.
SameButDone(e1, e2) == e1.date = e2.date /\ e1.kind = e2.kind /\ e1.label = e2.label

\* No Rest entry and no entry after today is marked done.
DoneOnlyTrainedDays ==
    \A i \in 1..Len(plan) : plan[i].done => (plan[i].kind # "Rest" /\ plan[i].date <= today)

\* Unless the plan is reset, every entry keeps its place, date, kind and
\* label, and its done flag changes only by "Save today's result" on the
\* entry dated today when that is no Rest entry.
ExistingEntriesKept ==
    call'.op # "generate" =>
        /\ Len(plan') >= Len(plan)
        /\ \A i \in 1..Len(plan) :
              /\ SameButDone(plan'[i], plan[i])
              /\ plan'[i].done # plan[i].done =>
                    (call'.op = "save" /\ plan[i].date = today /\ plan[i].kind # "Rest")

\* "Save today's result" changes at most one entry.
SaveChangesOneEntry ==
    call'.op = "save" =>
        Cardinality({i \in 1..Len(plan) : plan'[i] # plan[i]}) <= 1

\* "Generate / Reset Plan" replaces the plan by 60 entries, none done.
ResetGivesFreshPlan ==
    call'.op = "generate" =>
        /\ Len(plan') = 60
        /\ plan_start' = today
        /\ plan'[1].date = today
        /\ \A i \in 1..Len(plan') : ~plan'[i].done

\* C18: done is the only field that ever changes on an existing entry, and
\* only through "Save today's result": that action changes at most the done
\* flag of the one entry dated today, only when its kind is not Rest, and
\* leaves every other entry and the plan's length unchanged.  So no Rest
\* entry and no entry dated after today is done; only Generate / Reset
\* discards entries, replacing the plan by 60 fresh entries, none done.
C18_DoneFrame ==
    /\ []DoneOnlyTrainedDays
    /\ [][ExistingEntriesKept]_vars
    /\ [][SaveChangesOneEntry]_vars
    /\ [][call'.op = "save" => Len(plan') = Len(plan)]_vars
    /\ [][ResetGivesFreshPlan]_vars


\* A run that appends does so because today + 30 is beyond the last entry,
\* and what it appends is not done.
SaveOnlyAppends ==
    call'.op = "save" =>
        /\ Len(plan') >= Len(plan)
        /\ Len(plan') > Len(plan) =>
              /\ LastDay(plan) < today + TodayLookahead
              /\ \A i \in (Len(plan) + 1)..Len(plan') : ~plan'[i].done

\* C18 as amended: as C18, except that the run of "Save today's result"
\* may lengthen the plan: it first extends the plan when today + 30 is
\* beyond the last entry, appending entries that are not done after the
\* existing ones; every existing entry other than today's is unchanged.
C18_DoneFrameAmended ==
    /\ []DoneOnlyTrainedDays
    /\ [][ExistingEntriesKept]_vars
    /\ [][SaveChangesOneEntry]_vars
    /\ [][SaveOnlyAppends]_vars
    /\ [][ResetGivesFreshPlan]_vars

\* Today's entry was marked done by a run that also extended the plan.
C18_Witness ==
    /\ call.op = "save"
    /\ Len(plan) > call.len_before
    /\ \E i \in 1..call.len_before :
          plan[i].date = today /\ plan[i].done /\ plan[i].kind # "Rest"

=============================================================================
